---- MODULE Spec2Model ----
(***************************************************************************)
(* A model of the voice-assistant server: the TTS service with its         *)
(* provider fallback and its temporary files, the in-memory conversation   *)
(* store, the parsing stage of processWithGPT4, and the HTTP handlers      *)
(* /api/process-voice and /api/tts/synthesize.                             *)
(***************************************************************************)
EXTENDS Integers, Sequences, FiniteSets, TLC

VARIABLES
    now,             \* the wall clock (Date.now(), new Date()), in ticks of TickMs
    configured,      \* hosted TTS providers whose API key is set in the environment
    defaultProvider, \* TTSService.defaultProvider
    exited,          \* process.exit has been called
    tempFiles,       \* TTSService.tempFiles: the registry, a sequence of paths
    disk,            \* the uploads directory: path -> mtime of each existing file
    nextFile,        \* number of file names generated so far (names are fresh)
    calls,           \* the synthesizeToFile calls in flight, one per slot
    conversations,   \* MemStorage.conversations: id -> conversation
    messages,        \* MemStorage.messages: id -> message
    nextConv,        \* number of conversation ids drawn from randomUUID() so far
    nextMsg,         \* number of message ids drawn from randomUUID() so far
    lastOp,          \* history: the last store or registry call, its argument and its result
    gpt,             \* the processWithGPT4 call: its state, the reply and the outcome
    req,             \* the HTTP request being handled and its answer
    mail,            \* the EmailService.sendEmail call: its state and its result
    reminders,       \* ReminderService.reminders: id -> reminder
    nextReminder,    \* number of reminder ids generated so far (ids are fresh)
    parsed,          \* history: the last call of parseNaturalLanguageReminder
    speech           \* the TTSOptions object of a synthesizeToFile call and the
                     \* requests that the providers have sent for it (history)

ttsVars == <<configured, defaultProvider, exited, tempFiles, disk, nextFile, calls>>
storeVars == <<conversations, messages, nextConv, nextMsg, lastOp>>
svcVars == <<mail, reminders, nextReminder, parsed, speech>>
nonTtsVars == <<storeVars, gpt, req, svcVars>>
vars == <<now, ttsVars, nonTtsVars>>

----------------------------------------------------------------------------
(* Bounds *)

\* File names generated in one behaviour.
MaxFiles == 2
\* Last value of the clock.
MaxTime == 1
\* Results of randomUUID() (conversation and message ids) in one behaviour.
MaxIds == 4
\* Longest id list given to deleteMessages.
MaxBatch == 1

\* One tick of the clock, in milliseconds (24 hours).
TickMs == 24 * 60 * 60 * 1000

\* Slots for concurrent synthesizeToFile calls.
Calls == {"c1", "c2"}

----------------------------------------------------------------------------
(* TTSService: src/unnamed/part_000 *)

\* The keys of TTSService.providers after initializeProviders.
Registered == {"elevenlabs", "google", "openai", "browser"}
\* The providers that need an API key.
Hosted == {"elevenlabs", "google", "openai"}
\* A provider name a caller may pass; "azure" is not registered.
ProviderNames == Registered \cup {"azure"}

fallbackOrder == <<"openai", "elevenlabs", "google", "browser">>

\* cleanupTempFiles: maxAge (24 hours), in ticks.
maxAge == (24 * 60 * 60 * 1000) \div TickMs

NoCall == [pc |-> "idle", provider |-> "none", cur |-> "none", fb |-> 0,
           log |-> <<>>, created |-> {}, result |-> 0]

\* The fallback loop of synthesizeToFile: the index of the next entry of
\* fallbackOrder after position fb that is not the requested provider, 0 when
\* the list is exhausted.
NextFallbackIdxNoSkip(provider, fb) ==
    IF fb < Len(fallbackOrder) THEN fb + 1 ELSE 0

NextFallbackIdx(provider, fb) ==
    LET rest == {i \in (fb + 1)..Len(fallbackOrder) : fallbackOrder[i] # provider}
    IN  IF rest = {} THEN 0
        ELSE CHOOSE i \in rest : \A j \in rest : i <= j

\* The catch blocks of synthesizeToFile: after a failed attempt the call moves
\* to the next fallback provider, or throws 'All TTS providers failed'.
AfterFailure(cl) ==
    LET i == NextFallbackIdx(cl.provider, cl.fb)
        failedLog == Append(cl.log, <<cl.cur, "fail">>)
    IN  IF i = 0
        THEN [cl EXCEPT !.pc = "failed", !.log = failedLog]
        ELSE [cl EXCEPT !.pc = "try", !.cur = fallbackOrder[i], !.fb = i,
                        !.log = failedLog]

\* synthesize() of a provider throws before its first await: the name is not
\* in the registry (tryProvider), the API key is missing, or it is the
\* browser provider, which always throws on the server.
FailsAtOnce(p) ==
    \/ p \notin Registered
    \/ p \in Hosted /\ p \notin configured
    \/ p = "browser"

\* A synthesizeToFile call that has just begun: the first attempt is the
\* requested provider.
StartCall(p) == [NoCall EXCEPT !.pc = "try", !.provider = p, !.cur = p]

\* synthesizeToFile(text, provider = this.defaultProvider, options) is called.
Synthesize(c, p) ==
    /\ calls[c].pc = "idle"
    /\ calls' = [calls EXCEPT ![c] = StartCall(p)]
    /\ UNCHANGED <<now, configured, defaultProvider, exited, tempFiles, disk, nextFile, nonTtsVars>>

\* tryProvider(text, cur, options) up to the await of synthesize().
StartAttempt(c) ==
    LET cl == calls[c]
        started == [cl EXCEPT !.log = Append(cl.log, <<cl.cur, "start">>)]
    IN  /\ cl.pc = "try"
        /\ calls' = [calls EXCEPT ![c] =
                        IF FailsAtOnce(cl.cur) THEN AfterFailure(started)
                        ELSE [started EXCEPT !.pc = "await"]]
        /\ UNCHANGED <<now, configured, defaultProvider, exited, tempFiles, disk, nextFile, nonTtsVars>>

\* The remote synthesis fails (non-2xx, timeout, network error).
RemoteFails(c) ==
    /\ calls[c].pc = "await"
    /\ calls' = [calls EXCEPT ![c] = AfterFailure(calls[c])]
    /\ UNCHANGED <<now, configured, defaultProvider, exited, tempFiles, disk, nextFile, nonTtsVars>>

\* The remote synthesis succeeds, and fs.writeFileSync (or mkdirSync) throws.
\* writeFileSync opens the file before it writes: when it throws the file
\* was either never created or is left behind, partly written.
WriteFails(c, left) ==
    /\ calls[c].pc = "await"
    /\ IF left
       THEN /\ nextFile < MaxFiles
            /\ nextFile' = nextFile + 1
            /\ disk' = [f \in DOMAIN disk \cup {nextFile + 1} |->
                           IF f = nextFile + 1 THEN now ELSE disk[f]]
            /\ calls' = [calls EXCEPT ![c] =
                  AfterFailure([calls[c] EXCEPT !.created = @ \cup {nextFile + 1}])]
       ELSE /\ calls' = [calls EXCEPT ![c] = AfterFailure(calls[c])]
            /\ UNCHANGED <<disk, nextFile>>
    /\ UNCHANGED <<now, configured, defaultProvider, exited, tempFiles, nonTtsVars>>

\* this.tempFiles.push(filepath)
PushedNot(list, f) == list

Pushed(list, f) == Append(list, f)

\* The remote synthesis succeeds and tryProvider writes the file, pushes its
\* path on tempFiles and returns it.
AttemptSucceeds(c) ==
    LET f == nextFile + 1
    IN  /\ calls[c].pc = "await"
        /\ nextFile < MaxFiles
        /\ nextFile' = f
        /\ disk' = [g \in DOMAIN disk \cup {f} |-> IF g = f THEN now ELSE disk[g]]
        /\ tempFiles' = Pushed(tempFiles, f)
        /\ calls' = [calls EXCEPT ![c] =
              [@ EXCEPT !.pc = "done", !.result = f,
                        !.created = @ \cup {f},
                        !.log = Append(@, <<calls[c].cur, "ok">>)]]
        /\ UNCHANGED <<now, configured, defaultProvider, exited, nonTtsVars>>

\* The caller has taken the result (a path or the error): the slot is free.
Return(c) ==
    /\ calls[c].pc \in {"done", "failed"}
    /\ calls' = [calls EXCEPT ![c] = NoCall]
    /\ UNCHANGED <<now, configured, defaultProvider, exited, tempFiles, disk, nextFile, nonTtsVars>>

\* Time passes, up to limit.
TickTo(limit) ==
    /\ now < limit
    /\ now' = now + 1
    /\ UNCHANGED <<ttsVars, storeVars, gpt, req, svcVars>>

Tick == TickTo(MaxTime)

\* The paths of a registry.
Tracked(list) == {list[i] : i \in DOMAIN list}

\* cleanupTempFiles: age > maxAge, for a file that statSync finds.
OldOrAsOld(f) == now - disk[f] >= maxAge

Old(f) == now - disk[f] > maxAge

\* The callback of filter in cleanupTempFiles: statSync throws for a path
\* whose file is gone and the catch drops the path; an old file is
\* unlinked and dropped; any other path is kept.
Kept(f) == f \in DOMAIN disk /\ ~Old(f)

\* The timer of setupCleanupInterval fires: cleanupTempFiles runs from its
\* first statement to its last without an await.
cleanupTempFiles ==
    /\ tempFiles' = SelectSeq(tempFiles, Kept)
    /\ disk' = [g \in DOMAIN disk \ {f \in Tracked(tempFiles) : ~Kept(f)} |->
                   disk[g]]
    /\ UNCHANGED <<now, configured, defaultProvider, exited, nextFile, calls,
                   nonTtsVars>>

\* cleanup(): every tracked file that exists is unlinked, a path whose file
\* is gone is passed over, and the registry is emptied.
cleanupStopsAtMissing(list, d) ==
    LET missing == {i \in DOMAIN list : list[i] \notin DOMAIN d}
        reached == {list[i] : i \in {j \in DOMAIN list : \A m \in missing : j < m}}
    IN  [g \in DOMAIN d \ reached |-> d[g]]

cleanup(list, d) == [g \in DOMAIN d \ Tracked(list) |-> d[g]]

\* A step of the process: it has not exited.
Alive(A) == ~exited /\ A

\* SIGINT or SIGTERM: cleanup() and process.exit(0).
Shutdown ==
    /\ disk' = cleanup(tempFiles, disk)
    /\ tempFiles' = <<>>
    /\ exited' = TRUE
    /\ UNCHANGED <<now, configured, defaultProvider, nextFile, calls,
                   nonTtsVars>>


----------------------------------------------------------------------------
(* MemStorage: src/server/storage.ts *)
(* A conversation is [createdAt, updatedAt] and a message is               *)
(* [conversationId, timestamp]: the store copies title, role, content and  *)
(* audioUrl from its input and never reads them. randomUUID() never        *)
(* repeats, so the k-th conversation has id k among the conversations and  *)
(* the k-th message id k among the messages; an id of one kind is not a    *)
(* key of the other map.                                                   *)

NoOp == [op |-> "none", arg |-> 0, ret |-> FALSE, n |-> 0]

\* The call that has just returned: its name, its argument (the new id for
\* the create operations, the length of the list for deleteMessages), what
\* it returned (TRUE for an object) and how many messages it removed.
Returned(op, arg, ret, n) ==
    lastOp' = [op |-> op, arg |-> arg, ret |-> ret, n |-> n]

\* map.set(k, v)
MapSet(map, k, v) == [x \in DOMAIN map \cup {k} |-> IF x = k THEN v ELSE map[x]]
\* map.delete(k)
MapDelete(map, k) == [x \in DOMAIN map \ {k} |-> map[x]]

\* The ids of S in ascending order of key, ties in insertion order (ids are
\* inserted in ascending order and Array.prototype.sort is stable).
RECURSIVE SortedBy(_, _)
SortedBy(S, key) ==
    IF S = {} THEN <<>>
    ELSE LET first == CHOOSE a \in S : \A b \in S :
                          key[a] < key[b] \/ (key[a] = key[b] /\ a <= b)
         IN  <<first>> \o SortedBy(S \ {first}, key)

\* getConversations(): the conversations, newest updatedAt first.
getConversations ==
    SortedBy(DOMAIN conversations,
             [c \in DOMAIN conversations |-> 0 - conversations[c].updatedAt])

\* getConversation(id) finds a conversation.
HasConversation(id) == id \in DOMAIN conversations

\* getMessagesByConversation(conversationId): its messages, oldest first.
getMessagesByConversation(conversationId) ==
    SortedBy({m \in DOMAIN messages : messages[m].conversationId = conversationId},
             [m \in DOMAIN messages |-> messages[m].timestamp])

\* createConversation(insertConversation)
createConversation ==
    LET id == nextConv + 1
    IN  /\ nextConv + nextMsg < MaxIds
        /\ nextConv' = id
        /\ conversations' = MapSet(conversations, id,
                                   [createdAt |-> now, updatedAt |-> now])
        /\ Returned("createConversation", id, TRUE, 0)
        /\ UNCHANGED <<messages, nextMsg>>

\* createMessage without the update of the parent conversation.
TouchNothing(convs, conversationId, t) == convs

\* conversation.updatedAt = <a Date>, when the conversation is in the map.
Touch(convs, conversationId, t) ==
    IF conversationId \in DOMAIN convs
    THEN [convs EXCEPT ![conversationId].updatedAt = t]
    ELSE convs

\* createMessage(insertMessage)
createMessage(conversationId) ==
    LET id == nextMsg + 1
    IN  /\ nextConv + nextMsg < MaxIds
        /\ nextMsg' = id
        /\ messages' = MapSet(messages, id,
                              [conversationId |-> conversationId, timestamp |-> now])
        /\ conversations' = Touch(conversations, conversationId, now)
        /\ Returned("createMessage", id, TRUE, 0)
        /\ UNCHANGED nextConv

\* deleteConversation that forgets the messages.
OwnedMessagesNone(id) == {}

\* deleteConversation: messagesToDelete
OwnedMessages(id) == {m \in DOMAIN messages : messages[m].conversationId = id}

\* deleteConversation that reports success whatever it found.
deleteConversationResultAlways(id) == TRUE

\* What deleteConversation(id) returns.
deleteConversationResult(id) == HasConversation(id)

\* deleteConversation(id)
deleteConversation(id) ==
    /\ Returned("deleteConversation", id, deleteConversationResult(id),
                IF HasConversation(id) THEN Cardinality(OwnedMessages(id)) ELSE 0)
    /\ IF ~HasConversation(id)
       THEN UNCHANGED <<conversations, messages, nextConv, nextMsg>>
       ELSE /\ conversations' = MapDelete(conversations, id)
            /\ messages' = [m \in DOMAIN messages \ OwnedMessages(id) |-> messages[m]]
            /\ UNCHANGED <<nextConv, nextMsg>>

\* What deleteMessage(id) returns.
deleteMessageResult(id) == id \in DOMAIN messages

\* deleteMessage(id)
deleteMessage(id) ==
    /\ Returned("deleteMessage", id, deleteMessageResult(id),
                IF id \in DOMAIN messages THEN 1 ELSE 0)
    /\ IF id \notin DOMAIN messages
       THEN UNCHANGED <<conversations, messages, nextConv, nextMsg>>
       ELSE /\ messages' = MapDelete(messages, id)
            /\ conversations' = Touch(conversations, messages[id].conversationId, now)
            /\ UNCHANGED <<nextConv, nextMsg>>

\* The loop of deleteMessages over messageIds[i..]: the map, allDeleted and
\* the set of affected conversation ids after it.
RECURSIVE DeleteLoop(_, _, _)
DeleteLoop(ids, i, st) ==
    IF i > Len(ids) THEN st
    ELSE IF ids[i] \in DOMAIN st.msgs
         THEN DeleteLoop(ids, i + 1,
                  [st EXCEPT !.msgs = MapDelete(st.msgs, ids[i]),
                             !.conversationIds =
                                 @ \cup {st.msgs[ids[i]].conversationId}])
         ELSE DeleteLoop(ids, i + 1, [st EXCEPT !.allDeleted = FALSE])

DeleteLoopFrom(messageIds) ==
    DeleteLoop(messageIds, 1,
               [msgs |-> messages, allDeleted |-> TRUE, conversationIds |-> {}])

\* conversationIds.forEach(...): each affected conversation gets updatedAt.
TouchAll(convs, conversationIds, t) ==
    [c \in DOMAIN convs |->
        IF c \in conversationIds THEN [convs[c] EXCEPT !.updatedAt = t]
        ELSE convs[c]]

\* deleteMessages that looks at the map as it was before the loop.
deleteMessagesResultListed(messageIds) ==
    /\ Len(messageIds) > 0
    /\ \A i \in 1..Len(messageIds) : messageIds[i] \in DOMAIN messages

\* What deleteMessages(messageIds) returns.
deleteMessagesResult(messageIds) ==
    IF Len(messageIds) = 0 THEN FALSE ELSE DeleteLoopFrom(messageIds).allDeleted

\* deleteMessages(messageIds)
deleteMessages(messageIds) ==
    /\ Returned("deleteMessages", Len(messageIds), deleteMessagesResult(messageIds),
                Cardinality(DOMAIN messages \ DOMAIN DeleteLoopFrom(messageIds).msgs))
    /\ IF Len(messageIds) = 0
       THEN UNCHANGED <<conversations, messages, nextConv, nextMsg>>
       ELSE LET st == DeleteLoopFrom(messageIds)
            IN  /\ messages' = st.msgs
                /\ conversations' = TouchAll(conversations, st.conversationIds, now)
                /\ UNCHANGED <<nextConv, nextMsg>>

\* The ids a client can name. Every operation treats an id that is not a key
\* of the map it looks in the same way, whatever the id: 0 stands for them.
ConversationIds == DOMAIN conversations \cup {0}
MessageIds == DOMAIN messages \cup {0}

IdLists == UNION {[1..n -> MessageIds] : n \in 0..MaxBatch}

\* One call of a store method: nothing else runs inside it.
StoreStep(A) == A /\ UNCHANGED <<now, ttsVars, gpt, req, svcVars>>

CreateConversation == StoreStep(createConversation)
CreateMessage(cid) == StoreStep(createMessage(cid))
DeleteConversation(id) == StoreStep(deleteConversation(id))
DeleteMessage(id) == StoreStep(deleteMessage(id))
DeleteMessages(ids) == StoreStep(deleteMessages(ids))

\* The lists of deleteMessages that are long enough to name an id twice.
BatchLists == UNION {[1..n -> MessageIds] : n \in 0..(MaxBatch + 1)}

InitStore ==
    /\ conversations = <<>>
    /\ messages = <<>>
    /\ nextConv = 0
    /\ nextMsg = 0
    /\ lastOp = NoOp

NextStore ==
    \/ CreateConversation
    \/ \E cid \in ConversationIds : CreateMessage(cid)
    \/ \E id \in ConversationIds : DeleteConversation(id)
    \/ \E id \in MessageIds : DeleteMessage(id)
    \/ \E ids \in IdLists : DeleteMessages(ids)
    \/ Tick

----------------------------------------------------------------------------
(* processWithGPT4: src/server/services/openai.ts *)
(* The reply of the model is a text. It is modelled as the sequence of its *)
(* lexical pieces <<kind, value>>: a code fence, a brace, a member of a    *)
(* JSON object (together with the comma that separates it from its         *)
(* neighbours), the JSON values null and 5, and a run of prose that holds  *)
(* no brace, no fence and no JSON. White space between pieces is not       *)
(* modelled: JSON.parse skips it and trim() removes it at the two ends.    *)

\* Longest reply of the model, in pieces.
MaxLen == 4

\* The value of a property that an object does not have.
Undefined == "undefined"
\* The action tags of the system prompt and of the switch of /api/process-voice.
ActionTags == {"none", "weather", "news", "reminder", "email", "document", "music"}

FenceJson == <<"fence", "json">>
Fence == <<"fence", "">>
LBrace == <<"{", "">>
RBrace == <<"}", "">>
Null == <<"null", "">>
Number == <<"number", "5">>
Prose == <<"text", "prose">>
Member(name, v) == <<name, v>>
MemberNames == {"message", "action", "data"}

\* The pieces a reply is made of: "dance" is a tag outside ActionTags.
Pieces ==
    {FenceJson, Fence, LBrace, RBrace, Null, Number, Prose,
     Member("message", "hi"), Member("action", "weather"),
     Member("action", "dance"), Member("data", "payload")}

Replies == UNION {[1..n -> Pieces] : n \in 0..MaxLen}

\* A string value as a text of one piece.
Text(v) == <<<<"text", v>>>>

\* The number of characters of a piece; a run of prose has 120.
Width(p) ==
    CASE p[1] = "fence" -> IF p[2] = "json" THEN 7 ELSE 3
      [] p[1] \in {"{", "}", "number"} -> 1
      [] p[1] = "null" -> 4
      [] p[1] = "text" -> 120
      [] OTHER -> 20

RECURSIVE TextWidth(_)
TextWidth(s) == IF s = <<>> THEN 0 ELSE Width(Head(s)) + TextWidth(Tail(s))

\* The leading part of a piece that substring() has cut in two.
CutPiece == <<"text", "cut">>

\* content.substring(0, n): the pieces that lie within the first n
\* characters, and the leading part of the piece that crosses the limit.
substring(s, n) ==
    LET whole == CHOOSE k \in 0..Len(s) :
                    /\ TextWidth(SubSeq(s, 1, k)) <= n
                    /\ k < Len(s) => TextWidth(SubSeq(s, 1, k + 1)) > n
        kept == SubSeq(s, 1, whole)
    IN  IF whole = Len(s) \/ TextWidth(kept) = n THEN kept
        ELSE Append(kept, CutPiece)

\* The value of the last member called name, Undefined when there is none.
Field(members, name) ==
    LET idx == {i \in 1..Len(members) : members[i][1] = name}
    IN  IF idx = {} THEN Undefined
        ELSE members[CHOOSE i \in idx : \A j \in idx : j <= i][2]

\* The message member as a text; an absent member is the empty text, which
\* `||` treats as it treats undefined.
MessageField(members) ==
    IF Field(members, "message") = Undefined THEN <<>>
    ELSE Text(Field(members, "message"))

Value(kind, members) ==
    [kind |-> kind, message |-> MessageField(members),
     action |-> Field(members, "action"), data |-> Field(members, "data")]

\* JSON.parse: the text is one JSON value (null, a number, an object whose
\* members are pieces), or the call throws a SyntaxError.
JSONparse(s) ==
    IF s = <<Null>> THEN Value("null", <<>>)
    ELSE IF s = <<Number>> THEN Value("number", <<>>)
    ELSE IF /\ Len(s) >= 2
            /\ s[1] = LBrace
            /\ s[Len(s)] = RBrace
            /\ \A i \in 2..(Len(s) - 1) : s[i][1] \in MemberNames
         THEN Value("object", SubSeq(s, 2, Len(s) - 1))
    ELSE Value("SyntaxError", <<>>)

\* content.replace(/```json|```/g, '').trim()
StripFences(s) == SelectSeq(s, LAMBDA p : p[1] # "fence")

\* cleanContent.match(/\{.*\}/s): from the first "{" to the last "}" behind
\* it; the empty text when there is no match.
MatchBraces(s) ==
    LET opens == {i \in 1..Len(s) : s[i] = LBrace}
        closes == {i \in 1..Len(s) : s[i] = RBrace}
        first == CHOOSE i \in opens : \A j \in opens : i <= j
        last == CHOOSE i \in closes : \A j \in closes : j <= i
    IN  IF opens = {} \/ closes = {} THEN <<>>
        ELSE IF first < last THEN SubSeq(s, first, last)
        ELSE <<>>

\* substring(0, 200) of the fallback result.
MessageLimit == 200

EncounteredError == Text("I encountered an error processing your request.")
Apology == Text("I apologize, but I encountered an error processing your request.")
EmptyData == "{}"

\* The result built when no parse succeeds.
FallbackResultWhole(content) ==
    [kind |-> "object",
     message |-> IF content # <<>> THEN content ELSE EncounteredError,
     action |-> "none",
     data |-> EmptyData]

FallbackResult(content) ==
    [kind |-> "object",
     message |-> IF substring(content, MessageLimit) # <<>>
                 THEN substring(content, MessageLimit)
                 ELSE EncounteredError,
     action |-> "none",
     data |-> EmptyData]

\* `result` after the try/catch ladder.
ParseLadder(content) ==
    LET direct == JSONparse(content)
        jsonMatch == MatchBraces(StripFences(content))
    IN  IF direct.kind # "SyntaxError" THEN direct
        ELSE IF jsonMatch # <<>> /\ JSONparse(jsonMatch).kind # "SyntaxError"
             THEN JSONparse(jsonMatch)
        ELSE FallbackResult(content)

NoError == <<"", "">>
GptIdle ==
    [state |-> "idle", replied |-> FALSE, content |-> <<>>, message |-> <<>>,
     action |-> Undefined, data |-> Undefined, error |-> NoError]
GptWaiting == [GptIdle EXCEPT !.state = "waiting"]

\* The outer catch: the error that processWithGPT4 throws for a cause.
Rethrown(status, cause) ==
    IF status = "401"
    THEN <<"Authentication failed. Please check your API key in the .env file.", "">>
    ELSE <<"Failed to process with GPT-4: ", cause>>

\* The action tag of the returned triple: result.action || "none".
ReturnedAction(result) ==
    IF result.action # Undefined THEN result.action ELSE "none"

\* processWithGPT4 from the reply of the model to its return: reading a
\* property of null throws a TypeError, which the outer catch rethrows.
Completion(content) ==
    LET result == ParseLadder(content)
    IN  IF result.kind = "null"
        THEN [GptIdle EXCEPT !.state = "threw", !.replied = TRUE,
                             !.content = content,
                             !.error = Rethrown("none", "TypeError")]
        ELSE [state |-> "returned", replied |-> TRUE, content |-> content,
              message |-> IF result.message # <<>> THEN result.message
                          ELSE IF content # <<>> THEN content
                          ELSE Apology,
              action |-> ReturnedAction(result),
              data |-> IF result.data # Undefined THEN result.data ELSE EmptyData,
              error |-> NoError]

\* The causes of a failed chat completion: the status of the API error, or
\* none for a network error or a missing API key.
FailureStatus == {"401", "429", "none"}

\* processWithGPT4(message, conversationHistory, imageData) is called and
\* runs up to the await of the chat completion.
ProcessWithGPT4 ==
    /\ req.pc = "idle"
    /\ gpt.state # "waiting"
    /\ gpt' = GptWaiting
    /\ UNCHANGED <<now, ttsVars, storeVars, svcVars, req>>

\* The chat completion resolves with the reply `content`.
CompletionReturns(content) ==
    /\ gpt.state = "waiting"
    /\ gpt' = Completion(content)
    /\ UNCHANGED <<now, ttsVars, storeVars, svcVars, req>>

\* The chat completion rejects.
CompletionFails(status) ==
    /\ gpt.state = "waiting"
    /\ gpt' = [GptIdle EXCEPT !.state = "threw",
                              !.error = Rethrown(status, "API error")]
    /\ UNCHANGED <<now, ttsVars, storeVars, svcVars, req>>

NextParse ==
    \/ ProcessWithGPT4
    \/ gpt.state = "waiting" /\ \E content \in Replies : CompletionReturns(content)
    \/ \E status \in FailureStatus : CompletionFails(status)

----------------------------------------------------------------------------
(* The hosted TTS providers and the voice of their requests:               *)
(* src/unnamed/part_000. One TTSOptions object goes from synthesizeToFile  *)
(* to every provider that the call tries.                                   *)

\* ElevenLabsTTSProvider.availableVoices
ElevenLabsVoices ==
    {"Rachel", "Drew", "Clyde", "Paul", "Domi", "Dave", "Fin", "Sarah",
     "Antoni", "Thomas", "Charlie", "George", "Emily", "Elli"}

\* OpenAITTSProvider.availableVoices
OpenAIVoices == {"alloy", "echo", "fable", "onyx", "nova", "shimmer"}

\* The voices of a family with the letters of a range: en-US-Standard-A ..
GoogleFamily(family, letters) == {<<family, l>> : l \in letters}

\* GoogleCloudTTSProvider.availableVoices[language], [] for a language
\* that is not a key. A voice is <<family, letter>>: en-US-Wavenet-A is
\* <<"en-US-Wavenet", "A">>.
GoogleVoices(language) ==
    CASE language = "en-US" ->
            {<<"en-US-Journey", "F">>, <<"en-US-News", "K">>, <<"en-US-News", "L">>}
            \cup GoogleFamily("en-US-Standard",
                               {"A", "B", "C", "D", "E", "F", "G", "H", "I", "J"})
            \cup GoogleFamily("en-US-Wavenet",
                               {"A", "B", "C", "D", "E", "F", "G", "H", "I", "J"})
      [] language = "en-GB" ->
            GoogleFamily("en-GB-Standard", {"A", "B", "C", "D"})
            \cup GoogleFamily("en-GB-Wavenet", {"A", "B", "C", "D"})
      [] language = "es-ES" ->
            GoogleFamily("es-ES-Standard", {"A", "B"})
            \cup GoogleFamily("es-ES-Wavenet", {"A", "B"})
      [] language = "fr-FR" ->
            GoogleFamily("fr-FR-Standard", {"A", "B", "C", "D"})
            \cup GoogleFamily("fr-FR-Wavenet", {"A", "B", "C", "D"})
      [] language = "de-DE" ->
            GoogleFamily("de-DE-Standard", {"A", "B", "C", "D", "E", "F"})
            \cup GoogleFamily("de-DE-Wavenet", {"A", "B", "C", "D"})
      [] OTHER -> {}

\* A voice of ElevenLabs or OpenAI as a pair, like those of Google.
Voice(name) == <<name, "">>

NoVoice == Voice(Undefined)

\* The default voice of each hosted provider.
DefaultVoice(p) ==
    CASE p = "elevenlabs" -> Voice("Rachel")
      [] p = "google" -> <<"en-US-Journey", "F">>
      [] p = "openai" -> Voice("nova")

\* options.language || 'en-US'
LanguageOf(options) ==
    IF options.language = Undefined THEN "en-US" ELSE options.language

\* The list that a provider validates a voice against.
AvailableVoices(p, options) ==
    CASE p = "elevenlabs" -> {Voice(v) : v \in ElevenLabsVoices}
      [] p = "google" -> GoogleVoices(LanguageOf(options))
      [] p = "openai" -> {Voice(v) : v \in OpenAIVoices}

\* The options object after the validation of a provider: an unknown voice
\* is overwritten with the default; ElevenLabs and OpenAI pass over an
\* absent voice, Google validates `options.voice || 'en-US-Journey-F'`.
Validated(p, options) ==
    LET voice == IF p = "google" /\ options.voice = NoVoice
                 THEN DefaultVoice(p) ELSE options.voice
    IN  IF voice # NoVoice /\ voice \notin AvailableVoices(p, options)
        THEN [options EXCEPT !.voice = DefaultVoice(p)]
        ELSE options

\* The voice that the request of a provider carries: ElevenLabs and OpenAI
\* read options.voice after the validation; Google sends the constant
\* `voice` that it read before the validation.
SentVoiceValidated(p, options) ==
    IF Validated(p, options).voice = NoVoice THEN DefaultVoice(p)
    ELSE Validated(p, options).voice

SentVoice(p, options) ==
    IF p = "google"
    THEN IF options.voice = NoVoice THEN DefaultVoice(p) ELSE options.voice
    ELSE SentVoiceValidated(p, options)

NoSpeech == [called |-> FALSE, options |-> [voice |-> NoVoice, language |-> Undefined],
             sent |-> <<>>]

\* The voices and languages that a caller asks for.
RequestedVoices ==
    {NoVoice, Voice("nova"), Voice("Rachel"), Voice("Bob"),
     <<"en-US-Journey", "F">>, <<"fr-FR-Wavenet", "A">>}

RequestedLanguages == {Undefined, "fr-FR", "it-IT"}

\* synthesizeToFile(text, provider, options) is called.
SynthesizeWith(voice, language) ==
    /\ ~speech.called
    /\ speech' = [NoSpeech EXCEPT !.called = TRUE,
                                  !.options = [voice |-> voice, language |-> language]]
    /\ UNCHANGED <<now, ttsVars, storeVars, gpt, req, mail, reminders,
                   nextReminder, parsed>>

\* synthesize(text, options) of a hosted provider whose key is set runs up
\* to its fetch: the request is sent (request: the provider, the voice
\* asked of it, the language and the voice sent) and the options object
\* keeps what the validation wrote. A call tries a provider once.
ProviderSynthesize(p) ==
    /\ speech.called
    /\ p \in configured
    /\ \A i \in DOMAIN speech.sent : speech.sent[i].provider # p
    /\ speech' = [speech EXCEPT
                     !.options = Validated(p, speech.options),
                     !.sent = Append(@, [provider |-> p,
                                         asked |-> speech.options.voice,
                                         language |-> LanguageOf(speech.options),
                                         voice |-> SentVoice(p, speech.options)])]
    /\ UNCHANGED <<now, ttsVars, storeVars, gpt, req, mail, reminders,
                   nextReminder, parsed>>

NextVoices ==
    \/ \E voice \in RequestedVoices, language \in RequestedLanguages :
            SynthesizeWith(voice, language)
    \/ \E p \in Hosted : ProviderSynthesize(p)

----------------------------------------------------------------------------
(* Utterances: the text of a request (transcription.text), as the sequence *)
(* of its phrases <<kind, n>>. A phrase is a piece of text that the        *)
(* regular expressions of the services match as a whole or not at all.     *)

Word(w) == <<w, 0>>
Space == <<" ", 0>>
Comma == <<",", 0>>
\* "to bob@example.com": what /(?:to|send to|email)\s+<address>/i matches.
ToAddress == <<"to bob@example.com", 0>>

----------------------------------------------------------------------------
(* EmailService: src/server/services/email.ts *)

\* The keys of EmailService.providers after the constructor.
EmailRegistered == {"gmail", "sendgrid"}
\* EmailService.defaultProvider
mailDefaultProvider == "demo"
\* The provider names a caller may pass.
EmailProviderNames == EmailRegistered \cup {"demo", "smtp"}

\* null, the result of parseEmailFromText without a recipient.
NoEmail == [to |-> "", subject |-> ""]

\* parseEmailFromText: the recipient is the address of the first match.
parseEmailFromText(text) ==
    IF \E i \in 1..Len(text) : text[i] = ToAddress
    THEN [to |-> "bob@example.com", subject |-> "Message from Voice Assistant"]
    ELSE NoEmail

Sent == [success |-> TRUE, error |-> <<"", "">>]
SendFailed(text, name) == [success |-> FALSE, error |-> <<text, name>>]

\* invoked: the providers whose sendEmail has been called (history).
MailIdle ==
    [pc |-> "idle", provider |-> "none", data |-> NoEmail, invoked |-> <<>>,
     result |-> SendFailed("", "")]

\* EmailService.sendEmail for a provider that is not in the registry.
NotRegisteredFallsBack(m) ==
    [m EXCEPT !.pc = "done", !.invoked = <<"gmail">>, !.result = Sent]

NotRegistered(m) ==
    [m EXCEPT !.pc = "done",
              !.result = SendFailed("Email provider '%s' not found", m.provider)]

\* EmailService.sendEmail(data, provider) up to its first await that does
\* not resolve at once. hasKey: the credential of the provider is set in
\* the environment.
StartSend(data, provider, hasKey) ==
    LET m == [MailIdle EXCEPT !.provider = provider, !.data = data]
        called == [m EXCEPT !.invoked = <<provider>>]
    IN  IF provider \notin EmailRegistered THEN NotRegistered(m)
        ELSE IF provider = "gmail"
        THEN [called EXCEPT !.pc = "done",
                !.result = IF hasKey THEN Sent
                           ELSE SendFailed("Gmail access token not configured. Please set up OAuth authentication.", "")]
        ELSE IF hasKey THEN [called EXCEPT !.pc = "fetch"]
        ELSE [called EXCEPT !.pc = "done",
                !.result = SendFailed("SendGrid API key not configured", "")]

\* The fetch of SendGridProvider.sendEmail settles: 2xx, another status, or
\* it rejects; the provider returns a result in each case.
FetchSettles(outcome) ==
    /\ mail.pc = "fetch"
    /\ mail' = [mail EXCEPT !.pc = "done",
                  !.result = CASE outcome = "ok" -> Sent
                               [] outcome = "status" -> SendFailed("SendGrid error: ", "")
                               [] OTHER -> SendFailed("fetch failed", "")]
    /\ UNCHANGED <<now, ttsVars, storeVars, gpt, req, reminders, nextReminder, parsed, speech>>

----------------------------------------------------------------------------
(* ReminderService: src/server/services/reminders.ts *)
(* Times are in milliseconds: Date.now() is now * TickMs.                 *)

\* Reminders created in one behaviour.
MaxReminders == 2
\* Longest text given to parseNaturalLanguageReminder, in phrases.
MaxPhrases == 3

RemindMeTo == <<"remind me to ", 0>>
\* "in n hours", "in n minutes", "in n days": unit is hour, minute or day.
In(n, unit) == <<unit, n>>
Tomorrow == <<"tomorrow", 0>>
NextWeek == <<"next week", 0>>
Urgent == <<"urgent", 0>>
LowPriority == <<"low priority", 0>>

\* The phrases that /in \d+ (hour[s]?|minute[s]?|day[s]?)/i matches.
InKinds == {"hour", "minute", "day"}
\* The phrases that /(tomorrow|next week)/i matches.
DayKinds == {"tomorrow", "next week"}
HighKinds == {"urgent", "important", "asap"}
LowKinds == {"low priority", "when possible"}

timePatterns ==
    <<[kind |-> "hour", multiplier |-> 60 * 60 * 1000, fixed |-> FALSE],
      [kind |-> "minute", multiplier |-> 60 * 1000, fixed |-> FALSE],
      [kind |-> "day", multiplier |-> 24 * 60 * 60 * 1000, fixed |-> FALSE],
      [kind |-> "tomorrow", multiplier |-> 24 * 60 * 60 * 1000, fixed |-> TRUE],
      [kind |-> "next week", multiplier |-> 7 * 24 * 60 * 60 * 1000, fixed |-> TRUE]>>

\* text.match(pattern) and text.replace(pattern, ''): the position of the
\* first phrase of one of the kinds, 0 when there is none.
FirstMatch(text, kinds) ==
    LET hits == {i \in 1..Len(text) : text[i][1] \in kinds}
    IN  IF hits = {} THEN 0 ELSE CHOOSE i \in hits : \A j \in hits : i <= j

RemoveFirst(text, kinds) ==
    LET m == FirstMatch(text, kinds)
    IN  IF m = 0 THEN text
        ELSE SubSeq(text, 1, m - 1) \o SubSeq(text, m + 1, Len(text))

\* The loop over timePatterns from entry k on: the offset of the first
\* pattern that matches, one hour when none does.
DueOffsetByPosition(text, k) ==
    LET m == FirstMatch(text, InKinds \cup DayKinds)
        p == CHOOSE i \in 1..Len(timePatterns) : timePatterns[i].kind = text[m][1]
    IN  IF m = 0 THEN 60 * 60 * 1000
        ELSE IF timePatterns[p].fixed THEN timePatterns[p].multiplier
        ELSE text[m][2] * timePatterns[p].multiplier

RECURSIVE DueOffset(_, _)
DueOffset(text, k) ==
    IF k > Len(timePatterns) THEN 60 * 60 * 1000
    ELSE LET m == FirstMatch(text, {timePatterns[k].kind})
         IN  IF m = 0 THEN DueOffset(text, k + 1)
             ELSE IF timePatterns[k].fixed THEN timePatterns[k].multiplier
             ELSE text[m][2] * timePatterns[k].multiplier

PriorityOf(text) ==
    IF FirstMatch(text, HighKinds) # 0 THEN "high"
    ELSE IF FirstMatch(text, LowKinds) # 0 THEN "low"
    ELSE "medium"

\* String.prototype.trim
RECURSIVE Trim(_)
Trim(text) ==
    IF text = <<>> THEN text
    ELSE IF Head(text) = Space THEN Trim(Tail(text))
    ELSE IF text[Len(text)] = Space THEN Trim(SubSeq(text, 1, Len(text) - 1))
    ELSE text

\* The title: the four replace() calls, each of which removes the first
\* match only and nothing around it, then trim().
TitleOf(text) ==
    LET stripped ==
            Trim(RemoveFirst(RemoveFirst(RemoveFirst(RemoveFirst(text,
                {"remind me to "}), InKinds), DayKinds), HighKinds \cup LowKinds))
    IN  IF stripped = <<>> THEN <<Word("Reminder")>> ELSE stripped

\* parseNaturalLanguageReminder(text) at time t (in milliseconds).
parseNaturalLanguageReminder(text, t) ==
    [title |-> TitleOf(text), dueDate |-> t + DueOffset(text, 1),
     priority |-> PriorityOf(text)]

\* new Date(x) of something that is no date.
InvalidDate == -1

\* The reminder that createReminder(data) stores at time t.
NewReminder(data, t) ==
    [title |-> data.title, dueDate |-> data.dueDate,
     priority |-> IF data.priority = Undefined THEN "medium" ELSE data.priority,
     isCompleted |-> FALSE, createdAt |-> t, updatedAt |-> t]

\* The reminder after completeReminder at time t.
CompletedNot(r, t) == [r EXCEPT !.isCompleted = ~@, !.updatedAt = t]

Completed(r, t) == [r EXCEPT !.isCompleted = TRUE, !.updatedAt = t]

\* this.reminders after createReminder(data) at time t. The id, made of the
\* time and of nine random characters, is taken to be fresh: ids are
\* numbered in the order of creation.
createReminder(data, t) == MapSet(reminders, nextReminder + 1, NewReminder(data, t))

\* this.reminders after completeReminder(id) at time t: an unknown id
\* returns null before anything is written.
completeReminder(id, t) ==
    IF id \in DOMAIN reminders
    THEN [reminders EXCEPT ![id] = Completed(@, t)]
    ELSE reminders

\* this.reminders after deleteReminder(id); no route calls it.
deleteReminder(id) == MapDelete(reminders, id)

\* getReminders(includeCompleted): the ids of the reminders returned (the
\* array is a fresh one, sorting it leaves the map alone).
getReminders(includeCompleted) ==
    {id \in DOMAIN reminders : includeCompleted \/ ~reminders[id].isCompleted}

\* getUpcomingReminders(hours) at time t: an invalid date compares false.
getUpcomingReminders(hours, t) ==
    {id \in getReminders(FALSE) :
        /\ reminders[id].dueDate # InvalidDate
        /\ reminders[id].dueDate <= t + hours * 60 * 60 * 1000
        /\ reminders[id].dueDate >= t}

\* No parse yet.
NotParsed == [text |-> <<>>, called |-> FALSE, t |-> 0,
              data |-> [title |-> <<>>, dueDate |-> 0, priority |-> Undefined]]

\* The phrases of the texts given to parseNaturalLanguageReminder.
Phrases ==
    {RemindMeTo, In(2, "hour"), In(5, "hour"), In(30, "minute"), In(3, "day"), Tomorrow,
     NextWeek, Urgent, LowPriority, Word("call"), Space, Comma}

ReminderTexts == UNION {[1..n -> Phrases] : n \in 0..MaxPhrases}

\* reminderService.parseNaturalLanguageReminder(text) is called; the call
\* observed is the first one.
ParseReminder(text) ==
    /\ ~parsed.called
    /\ parsed' = [text |-> text, called |-> TRUE, t |-> now * TickMs,
                  data |-> parseNaturalLanguageReminder(text, now * TickMs)]
    /\ UNCHANGED <<now, ttsVars, storeVars, gpt, req, mail, reminders, nextReminder,
                   speech>>

NextRemindParse ==
    \/ ~parsed.called /\ \E text \in ReminderTexts : ParseReminder(text)
    \/ Tick

----------------------------------------------------------------------------
(* The HTTP handlers /api/process-voice and /api/tts/synthesize:           *)
(* src/server/check-env.js. One request is handled at a time; a handler   *)
(* runs from one await to the next in one step.                            *)

\* The conversationId of a request body that has none.
NoId == -1

NoMessage == <<"", "", "">>

\* made: the calls the handler has made (history); failed: those that
\* failed (history); status 0: not answered yet; audioUrl 0: undefined;
\* utterance: transcription.text, once a branch has read it; reminderId:
\* req.params.id of PATCH /api/reminders/:id/complete.
ReqIdle ==
    [pc |-> "idle", route |-> "none", hasFile |-> FALSE, hasText |-> FALSE,
     conversationId |-> NoId, generateTTS |-> FALSE, ttsProvider |-> Undefined,
     upload |-> "none", history |-> <<>>, call |-> "none", utterance |-> <<>>,
     reminderId |-> NoId,
     made |-> {}, failed |-> {},
     status |-> 0, response |-> <<>>, action |-> Undefined, data |-> Undefined,
     audioUrl |-> 0, message |-> NoMessage]

\* The replies of the model that a request meets: an object with each tag,
\* an object with a tag outside ActionTags, null, prose, the empty text.
VoiceReplies ==
    {<<LBrace, Member("message", "hi"), Member("action", tag), RBrace>> :
        tag \in ActionTags \cup {"dance"}}
    \cup {<<Null>>, <<Prose>>, <<>>}

\* The texts that a request carries: small talk, a request to send an
\* email with and without an address.
Utterances ==
    {<<Word("hello")>>,
     <<Word("send"), Space, Word("lunch"), Space, ToAddress>>,
     <<Word("send"), Space, Word("lunch")>>}

\* 'remind me to call Sam in 30 minutes, urgent'
CallSam ==
    <<RemindMeTo, Word("call"), Space, Word("Sam"), Space, In(30, "minute"),
      Comma, Space, Urgent>>

\* The texts of the requests that meet the reminder service.
ReminderUtterances == {CallSam, <<Word("hello")>>}

\* The replies of the model to them.
ReminderReplies ==
    {<<LBrace, Member("message", "hi"), Member("action", tag), RBrace>> :
        tag \in {"reminder", "none"}}

\* The bodies of POST /api/reminders: with a due date and no priority, and
\* with a priority and no due date (new Date(undefined) is an invalid
\* date).
ReminderBodies ==
    {[title |-> <<Word("buy milk")>>, dueDate |-> TickMs, priority |-> Undefined],
     [title |-> <<Word("rest")>>, dueDate |-> InvalidDate, priority |-> "low"]}

\* The slot of the synthesizeToFile call that a handler starts.
FreeSlot == CHOOSE c \in Calls : calls[c].pc = "idle"

\* res.status(status).json({ message })
AnswerError(r, status, message) ==
    [r EXCEPT !.pc = "done", !.status = status, !.message = message]

\* The end of /api/process-voice: the uploaded file is unlinked and the
\* handler answers with res.json.
Answer200(r, audioUrl) ==
    [r EXCEPT !.pc = "done", !.status = 200,
              !.upload = IF r.hasFile THEN "deleted" ELSE @,
              !.response = gpt.message, !.action = gpt.action,
              !.audioUrl = audioUrl]

\* /api/process-voice from the TTS step on, up to the next await.
SpeakAndAnswer(r) ==
    IF r.generateTTS
    THEN /\ req' = [r EXCEPT !.pc = "tts", !.made = @ \cup {"tts"},
                             !.call = FreeSlot]
         /\ calls' = [calls EXCEPT ![FreeSlot] =
                         StartCall(IF r.ttsProvider = Undefined
                                   THEN defaultProvider ELSE r.ttsProvider)]
    ELSE /\ req' = Answer200(r, 0)
         /\ UNCHANGED calls

\* /api/process-voice from the read of the history up to the next await.
ReadHistoryAndAsk(r) ==
    IF r.conversationId # NoId
    THEN /\ req' = [r EXCEPT !.pc = "history", !.made = @ \cup {"store"},
                             !.history = getMessagesByConversation(r.conversationId)]
         /\ gpt' = GptIdle
    ELSE /\ req' = [r EXCEPT !.pc = "llm", !.made = @ \cup {"llm"}]
         /\ gpt' = GptWaiting

\* Neither transcriptionText nor a file: the handler answers 400 at once.
MissingInputAsks(r) == ReadHistoryAndAsk(r)

MissingInput(r) ==
    /\ req' = AnswerError(r, 400,
                  <<"No audio file or transcription text provided", "", "">>)
    /\ gpt' = GptIdle

\* POST /api/process-voice arrives; the body has transcriptionText or not,
\* multer has stored an audio file or not.
ProcessVoice(hasFile, hasText, conversationId, generateTTS, ttsProvider) ==
    LET r == [ReqIdle EXCEPT !.route = "voice", !.hasFile = hasFile,
                             !.hasText = hasText,
                             !.conversationId = conversationId,
                             !.generateTTS = generateTTS,
                             !.ttsProvider = ttsProvider,
                             !.upload = IF hasFile THEN "stored" ELSE "none"]
    IN  /\ req.pc = "idle"
        /\ gpt.state # "waiting"
        /\ IF hasText THEN ReadHistoryAndAsk(r)
           ELSE IF hasFile
                THEN /\ req' = [r EXCEPT !.pc = "transcribe",
                                         !.made = {"transcription"}]
                     /\ gpt' = GptIdle
           ELSE MissingInput(r)
        /\ UNCHANGED <<now, ttsVars, storeVars, svcVars>>

\* transcribeAudio resolves with a text.
TranscriptionReturns ==
    /\ req.pc = "transcribe"
    /\ ReadHistoryAndAsk(req)
    /\ UNCHANGED <<now, ttsVars, storeVars, svcVars>>

\* transcribeAudio rejects: Whisper is not available, or there is no API key.
TranscriptionFails(unavailable) ==
    /\ req.pc = "transcribe"
    /\ req' = IF unavailable
              THEN AnswerError([req EXCEPT !.failed = @ \cup {"transcription"}], 400,
                     <<"Server-side transcription not available. Please use client-side speech recognition.", "", "">>)
              ELSE AnswerError([req EXCEPT !.failed = @ \cup {"transcription"}], 500,
                     <<"Failed to process voice input: ",
                       "Failed to transcribe audio: ", "No API key found">>)
    /\ UNCHANGED <<now, ttsVars, storeVars, svcVars, gpt>>

\* storage.getMessagesByConversation has resolved; processWithGPT4 is called.
HistoryRead ==
    /\ req.pc = "history"
    /\ req' = [req EXCEPT !.pc = "llm", !.made = @ \cup {"llm"}]
    /\ gpt' = GptWaiting
    /\ UNCHANGED <<now, ttsVars, storeVars, svcVars>>

\* The catch of an enrichment branch: the error is logged and the handler
\* goes on to the TTS step; the music branch sets a default payload.
CollaboratorFailedAborts(r, name) ==
    /\ req' = AnswerError([r EXCEPT !.failed = @ \cup {name}], 500,
                          <<"Failed to process voice input: ", name, "">>)
    /\ UNCHANGED calls

CollaboratorFailed(r, name) ==
    SpeakAndAnswer(
        [r EXCEPT !.failed = @ \cup {name},
                  !.data = IF name = "music"
                           THEN "Music service temporarily unavailable" ELSE @])

\* processWithGPT4 has settled: the catch of the handler answers 500, or the
\* switch on the action runs up to the next await. utterance is the text of
\* the request, read here for the first time; threw: a collaborator that is
\* called without an await throws into the catch of its branch.
RouteAction(utterance, threw) ==
    LET r == [req EXCEPT !.data = gpt.data]
        heard == [r EXCEPT !.utterance = utterance]
        emailData == parseEmailFromText(utterance)
        sends == /\ gpt.state = "returned"
                 /\ gpt.action = "email"
                 /\ ~threw
                 /\ emailData # NoEmail
        reminderData == parseNaturalLanguageReminder(utterance, now * TickMs)
        creates == /\ gpt.state = "returned"
                   /\ gpt.action = "reminder"
                   /\ ~threw
    IN  /\ req.pc = "llm"
        /\ gpt.state \in {"returned", "threw"}
        /\ creates => nextReminder < MaxReminders
        /\ IF gpt.state = "threw"
           THEN /\ req' = AnswerError([req EXCEPT !.failed = @ \cup {"llm"}], 500,
                                      <<"Failed to process voice input: ">> \o gpt.error)
                /\ UNCHANGED calls
           ELSE CASE gpt.action \in {"weather", "news", "music"} ->
                        /\ req' = [r EXCEPT !.pc = "enrich",
                                            !.made = @ \cup {gpt.action}]
                        /\ UNCHANGED calls
                  [] gpt.action = "email" ->
                        IF threw THEN CollaboratorFailed(heard, "email")
                        ELSE IF emailData # NoEmail
                        THEN /\ req' = [heard EXCEPT !.pc = "enrich",
                                                     !.made = @ \cup {"email"}]
                             /\ UNCHANGED calls
                        ELSE SpeakAndAnswer(heard)
                  [] gpt.action = "reminder" ->
                        LET called == [heard EXCEPT !.made = @ \cup {"reminder"}]
                        IN  IF threw
                            THEN CollaboratorFailed(called, "reminder")
                            ELSE SpeakAndAnswer(
                                     [called EXCEPT !.data =
                                         NewReminder(reminderData, now * TickMs)])
                  [] gpt.action = "document" ->
                        SpeakAndAnswer(
                            [r EXCEPT !.data = "Document processing initiated"])
                  [] OTHER -> SpeakAndAnswer(r)
        /\ IF sends
           THEN \E hasKey \in BOOLEAN :
                    mail' = StartSend(emailData, mailDefaultProvider, hasKey)
           ELSE UNCHANGED mail
        /\ IF creates
           THEN /\ reminders' = createReminder(reminderData, now * TickMs)
                /\ nextReminder' = nextReminder + 1
           ELSE UNCHANGED <<reminders, nextReminder>>
        /\ UNCHANGED <<now, configured, defaultProvider, exited, tempFiles, disk,
                       nextFile, storeVars, parsed, speech, gpt>>

\* getWeatherData, getLatestNews, emailService.sendEmail or the fetch of
\* /api/music resolves.
CollaboratorReturns ==
    /\ req.pc = "enrich"
    /\ gpt.action = "email" => mail.pc = "done"
    /\ SpeakAndAnswer([req EXCEPT !.data = IF gpt.action = "email"
                                           THEN mail.result ELSE gpt.action])
    /\ UNCHANGED <<now, configured, defaultProvider, exited, tempFiles, disk,
                   nextFile, storeVars, svcVars, gpt>>

\* It rejects (for music: the fetch rejects, times out or is not ok).
\* emailService.sendEmail never rejects.
CollaboratorFails ==
    /\ req.pc = "enrich"
    /\ gpt.action # "email"
    /\ CollaboratorFailed(req, gpt.action)
    /\ UNCHANGED <<now, configured, defaultProvider, exited, tempFiles, disk,
                   nextFile, storeVars, svcVars, gpt>>

\* POST /api/email/send arrives: emailService.sendEmail is called with the
\* provider of the body, 'demo' when it has none.
EmailSend(provider, hasKey) ==
    /\ req.pc = "idle"
    /\ req' = [ReqIdle EXCEPT !.route = "email", !.pc = "email",
                              !.made = {"email"}]
    /\ mail' = StartSend([to |-> "bob@example.com", subject |-> "hello"],
                         IF provider = Undefined THEN "demo" ELSE provider,
                         hasKey)
    /\ UNCHANGED <<now, ttsVars, storeVars, reminders, nextReminder, parsed, speech, gpt>>

\* emailService.sendEmail has resolved: res.json(result).
EmailAnswered ==
    /\ req.pc = "email"
    /\ mail.pc = "done"
    /\ req' = [req EXCEPT !.pc = "done", !.status = 200, !.data = mail.result]
    /\ UNCHANGED <<now, ttsVars, storeVars, svcVars, gpt>>

\* POST /api/tts/synthesize arrives.
TtsSynthesize(hasText, provider) ==
    LET r == [ReqIdle EXCEPT !.route = "tts", !.hasText = hasText,
                             !.ttsProvider = provider]
    IN  /\ req.pc = "idle"
        /\ IF hasText
           THEN /\ req' = [r EXCEPT !.pc = "tts", !.made = {"tts"},
                                    !.call = FreeSlot]
                /\ calls' = [calls EXCEPT ![FreeSlot] =
                                StartCall(IF provider = Undefined
                                          THEN "openai" ELSE provider)]
           ELSE /\ req' = AnswerError(r, 400, <<"Text is required", "", "">>)
                /\ UNCHANGED calls
        /\ UNCHANGED <<now, configured, defaultProvider, exited, tempFiles, disk,
                       nextFile, storeVars, svcVars, gpt>>

\* The catch around synthesizeToFile in /api/process-voice: the error is
\* logged, audioUrl stays undefined and the handler answers.
VoiceSynthesisFailed(r) == Answer200([r EXCEPT !.failed = @ \cup {"tts"}], 0)

\* The catch of /api/tts/synthesize.
TtsRouteSynthesisFailedOk(r) ==
    [r EXCEPT !.failed = @ \cup {"tts"}, !.pc = "done", !.status = 200]

TtsRouteSynthesisFailed(r) ==
    AnswerError([r EXCEPT !.failed = @ \cup {"tts"}], 500,
                <<"Failed to synthesize speech", "", "">>)

\* synthesizeToFile has settled: the handler that awaits it goes on.
SynthesisSettled ==
    LET cl == calls[req.call]
    IN  /\ req.pc = "tts"
        /\ cl.pc \in {"done", "failed"}
        /\ calls' = [calls EXCEPT ![req.call] = NoCall]
        /\ req' = IF req.route = "voice"
                  THEN IF cl.pc = "done" THEN Answer200(req, cl.result)
                       ELSE VoiceSynthesisFailed(req)
                  ELSE IF cl.pc = "done"
                       THEN [req EXCEPT !.pc = "sendFile", !.status = 200,
                                        !.audioUrl = cl.result]
                       ELSE TtsRouteSynthesisFailed(req)
        /\ UNCHANGED <<now, configured, defaultProvider, exited, tempFiles, disk,
                       nextFile, storeVars, svcVars, gpt>>

\* fs.unlink(path): the directory without the file.
UnlinkedNot(d, f) == d

Unlinked(d, f) == [g \in DOMAIN d \ {f} |-> d[g]]

\* The callback of res.sendFile: without an error the file is unlinked; the
\* registry is not touched.
SendFileDone(err) ==
    /\ req.pc = "sendFile"
    /\ req' = [req EXCEPT !.pc = "done",
                          !.failed = IF err THEN @ \cup {"sendFile"} ELSE @]
    /\ disk' = IF err THEN disk ELSE Unlinked(disk, req.audioUrl)
    /\ UNCHANGED <<now, configured, defaultProvider, exited, tempFiles, nextFile,
                   calls, storeVars, svcVars, gpt>>

\* A reminder route that answers at once.
ReminderRoute(call, status, data) ==
    req' = [ReqIdle EXCEPT !.route = "reminders", !.pc = "done",
                           !.made = {call}, !.status = status, !.data = data]

\* GET /api/reminders
RemindersGet(includeCompleted) ==
    /\ req.pc = "idle"
    /\ ReminderRoute("getReminders", 200, getReminders(includeCompleted))
    /\ UNCHANGED <<now, ttsVars, storeVars, svcVars, gpt>>

\* GET /api/reminders/upcoming: hours is 24 when the query has none.
RemindersUpcoming(hours) ==
    /\ req.pc = "idle"
    /\ ReminderRoute("getUpcomingReminders", 200,
                     getUpcomingReminders(hours, now * TickMs))
    /\ UNCHANGED <<now, ttsVars, storeVars, svcVars, gpt>>

\* POST /api/reminders: the fields of the body go to createReminder as
\* they are.
RemindersPost(body) ==
    /\ req.pc = "idle"
    /\ nextReminder < MaxReminders
    /\ reminders' = createReminder(body, now * TickMs)
    /\ nextReminder' = nextReminder + 1
    /\ ReminderRoute("createReminder", 201, NewReminder(body, now * TickMs))
    /\ UNCHANGED <<now, ttsVars, storeVars, mail, parsed, speech, gpt>>

\* PATCH /api/reminders/:id/complete: 404 when completeReminder returns
\* null.
RemindersComplete(id) ==
    /\ req.pc = "idle"
    /\ reminders' = completeReminder(id, now * TickMs)
    /\ req' = [ReqIdle EXCEPT !.route = "reminders", !.pc = "done",
                              !.made = {"completeReminder"}, !.reminderId = id,
                              !.status = IF id \in DOMAIN reminders THEN 200 ELSE 404,
                              !.data = IF id \in DOMAIN reminders
                                       THEN Completed(reminders[id], now * TickMs)
                                       ELSE Undefined]
    /\ UNCHANGED <<now, ttsVars, storeVars, mail, nextReminder, parsed, speech, gpt>>

\* The answer has been sent: the next request is handled.
Finish ==
    /\ req.pc = "done"
    /\ req' = ReqIdle
    /\ gpt' = GptIdle
    /\ mail' = MailIdle
    /\ UNCHANGED <<now, ttsVars, storeVars, reminders, nextReminder, parsed, speech>>

NextVoice ==
    \/ \E hasFile \in BOOLEAN, hasText \in BOOLEAN,
          conversationId \in {NoId} \cup ConversationIds,
          generateTTS \in BOOLEAN, ttsProvider \in ProviderNames \cup {Undefined} :
            ProcessVoice(hasFile, hasText, conversationId, generateTTS, ttsProvider)
    \/ TranscriptionReturns
    \/ \E unavailable \in BOOLEAN : TranscriptionFails(unavailable)
    \/ HistoryRead
    \/ req.pc = "llm" /\ \E content \in VoiceReplies : CompletionReturns(content)
    \/ req.pc = "llm" /\ \E status \in FailureStatus : CompletionFails(status)
    \* The reminder branch that stores a reminder is followed in
    \* NextReminders; here it is followed when it fails.
    \/ \E utterance \in Utterances, threw \in BOOLEAN :
            (gpt.action = "reminder" => threw) /\ RouteAction(utterance, threw)
    \/ CollaboratorReturns
    \/ CollaboratorFails
    \/ \E provider \in EmailProviderNames \cup {Undefined}, hasKey \in BOOLEAN :
            EmailSend(provider, hasKey)
    \/ \E outcome \in {"ok", "status", "rejects"} : FetchSettles(outcome)
    \/ EmailAnswered
    \/ \E hasText \in BOOLEAN, provider \in ProviderNames \cup {Undefined} :
            TtsSynthesize(hasText, provider)
    \/ \E c \in Calls : StartAttempt(c)
    \/ \E c \in Calls : RemoteFails(c)
    \/ \E c \in Calls, left \in BOOLEAN : WriteFails(c, left)
    \/ \E c \in Calls : AttemptSucceeds(c)
    \/ SynthesisSettled
    \/ \E err \in BOOLEAN : SendFileDone(err)
    \/ Finish

\* The reminder service behind its routes and behind the reminder branch
\* of /api/process-voice (requests with a text and without speech), as
\* time passes.
NextReminders ==
    \/ ProcessVoice(FALSE, TRUE, NoId, FALSE, Undefined)
    \/ req.pc = "llm" /\ \E content \in ReminderReplies : CompletionReturns(content)
    \/ \E utterance \in ReminderUtterances, threw \in BOOLEAN :
            RouteAction(utterance, threw)
    \/ \E includeCompleted \in BOOLEAN : RemindersGet(includeCompleted)
    \/ \E hours \in {1, 24} : RemindersUpcoming(hours)
    \/ \E body \in ReminderBodies : RemindersPost(body)
    \/ \E id \in 1..(MaxReminders + 1) : RemindersComplete(id)
    \/ Finish
    \/ Tick

\* DELETE /api/conversations/:conversationId/messages up to its second
\* await: getConversation has answered, 404 when it found nothing.
ClearMessages(conversationId) ==
    LET r == [ReqIdle EXCEPT !.route = "clear", !.conversationId = conversationId,
                             !.made = {"getConversation"}]
    IN  /\ req.pc = "idle"
        /\ req' = IF HasConversation(conversationId)
                  THEN [r EXCEPT !.pc = "clearRead"]
                  ELSE AnswerError(r, 404, <<"Conversation not found", "", "">>)
        /\ UNCHANGED <<now, ttsVars, storeVars, svcVars, gpt>>

\* getMessagesByConversation has answered: messageIds are the ids of the
\* messages it returned.
ClearMessagesRead ==
    /\ req.pc = "clearRead"
    /\ req' = [req EXCEPT !.pc = "clearDelete",
                          !.made = @ \cup {"getMessagesByConversation"},
                          !.history = getMessagesByConversation(req.conversationId)]
    /\ UNCHANGED <<now, ttsVars, storeVars, svcVars, gpt>>

\* deleteMessages(messageIds) has answered: 500 when it returned false.
ClearMessagesDelete ==
    /\ req.pc = "clearDelete"
    /\ deleteMessages(req.history)
    /\ req' = IF deleteMessagesResult(req.history)
              THEN [req EXCEPT !.pc = "done", !.status = 200,
                               !.made = @ \cup {"deleteMessages"}]
              ELSE AnswerError([req EXCEPT !.made = @ \cup {"deleteMessages"}], 500,
                               <<"Some messages could not be deleted", "", "">>)
    /\ UNCHANGED <<now, ttsVars, svcVars, gpt>>

\* The route that clears a conversation, next to requests that create
\* conversations and create or delete single messages.
NextClear ==
    \/ CreateConversation
    \/ \E cid \in ConversationIds : CreateMessage(cid)
    \/ \E id \in MessageIds : DeleteMessage(id)
    \/ \E cid \in ConversationIds : ClearMessages(cid)
    \/ ClearMessagesRead
    \/ ClearMessagesDelete
    \/ Finish

\* The temporary files: concurrent synthesizeToFile calls, the route that
\* streams a file and unlinks it, the sweep, the shutdown, as time passes
\* beyond maxAge.
NextSweep ==
    \/ \E c \in Calls : Alive(Synthesize(c, "openai"))
    \/ \E c \in Calls : Alive(StartAttempt(c))
    \/ \E c \in Calls : Alive(AttemptSucceeds(c))
    \/ \E c \in Calls : req.call # c /\ Alive(Return(c))
    \/ /\ \E c \in Calls : calls[c].pc = "idle"
       /\ \E hasText \in BOOLEAN : Alive(TtsSynthesize(hasText, Undefined))
    \/ Alive(SynthesisSettled)
    \/ \E err \in BOOLEAN : Alive(SendFileDone(err))
    \/ Alive(Finish)
    \/ Alive(cleanupTempFiles)
    \/ Alive(Shutdown)
    \/ Alive(TickTo(MaxTime + maxAge))

\* The temporary files when a write may fail as well: the steps of
\* NextSweep and a writeFileSync that throws, with or without leaving its
\* file behind.
NextLeak ==
    \/ NextSweep
    \/ \E c \in Calls, left \in BOOLEAN : Alive(WriteFails(c, left))

\* The timer of setupCleanupInterval keeps firing and the clock goes on
\* (up to the bound of the model) as long as the process lives.
SweepKeepsRunning ==
    /\ WF_vars(Alive(cleanupTempFiles))
    /\ WF_vars(Alive(TickTo(MaxTime + maxAge)))

\* deleteMessages on its own: lists with unknown and repeated ids, over
\* messages of several conversations, as time passes. The store gets as
\* many messages as the longest list has entries.
NextBatch ==
    \/ CreateConversation
    \/ /\ nextMsg < MaxBatch + 1
       /\ \E cid \in ConversationIds : CreateMessage(cid)
    \/ \E ids \in BatchLists : DeleteMessages(ids)
    \/ Tick

\* setDefaultProvider that takes any name.
setDefaultProviderThrowsNever(provider) == FALSE

\* setDefaultProvider(provider) throws: the name is not a key of providers.
setDefaultProviderThrows(provider) == provider \notin Registered

\* setDefaultProvider(provider); the call record says whether it returned.
setDefaultProvider(provider) ==
    /\ defaultProvider' = IF setDefaultProviderThrows(provider)
                          THEN defaultProvider ELSE provider
    /\ Returned("setDefaultProvider", 0, ~setDefaultProviderThrows(provider), 0)
    /\ UNCHANGED <<now, configured, exited, tempFiles, disk, nextFile, calls,
                   conversations, messages, nextConv, nextMsg, gpt, req, svcVars>>

\* synthesizeToFile(text): the provider argument takes its default.
SynthesizeDefault(c) == Synthesize(c, defaultProvider)

\* The default provider: it is set, and calls without a provider argument
\* run with it.
NextRegistry ==
    \/ \E provider \in ProviderNames : setDefaultProvider(provider)
    \/ \E c \in Calls : SynthesizeDefault(c)
    \/ \E c \in Calls : StartAttempt(c)
    \/ \E c \in Calls : RemoteFails(c)
    \/ \E c \in Calls : AttemptSucceeds(c)
    \/ \E c \in Calls : Return(c)

----------------------------------------------------------------------------

InitTTS ==
    /\ configured \in SUBSET Hosted
    /\ defaultProvider = "openai"
    /\ exited = FALSE
    /\ tempFiles = <<>>
    /\ disk = <<>>
    /\ nextFile = 0
    /\ calls = [c \in Calls |-> NoCall]

Init ==
    /\ now = 0
    /\ InitTTS
    /\ InitStore
    /\ gpt = GptIdle
    /\ req = ReqIdle
    /\ mail = MailIdle
    /\ reminders = <<>>
    /\ nextReminder = 0
    /\ parsed = NotParsed
    /\ speech = NoSpeech

\* The environment of a run that exercises the store or the parser alone:
\* every key is set.
InitAllConfigured == Init /\ configured = Hosted
\* The environment of the handlers: every key is set, or the OpenAI key of
\* the TTS provider is missing.
InitVoice == Init /\ configured \in {Hosted, Hosted \ {"openai"}}

NextTTS ==
    \/ \E c \in Calls, p \in ProviderNames : Synthesize(c, p)
    \/ \E c \in Calls : StartAttempt(c)
    \/ \E c \in Calls : RemoteFails(c)
    \/ \E c \in Calls, left \in BOOLEAN : WriteFails(c, left)
    \/ \E c \in Calls : AttemptSucceeds(c)
    \/ \E c \in Calls : Return(c)

Next == NextTTS \/ NextStore \/ NextParse \/ NextVoice

Spec == Init /\ [][Next]_vars
SpecTTS == Init /\ [][NextTTS]_vars
SpecStore == InitAllConfigured /\ [][NextStore]_vars
SpecParse == InitAllConfigured /\ [][NextParse]_vars
SpecRemindParse == InitAllConfigured /\ [][NextRemindParse]_vars
SpecVoice == InitVoice /\ [][NextVoice]_vars
SpecReminders == InitAllConfigured /\ [][NextReminders]_vars
SpecSweep == InitAllConfigured /\ [][NextSweep]_vars
SpecVoices == InitAllConfigured /\ [][NextVoices]_vars
SpecClear == InitAllConfigured /\ [][NextClear]_vars
SpecBatch == InitAllConfigured /\ [][NextBatch]_vars
SpecRegistry == Init /\ [][NextRegistry]_vars
SpecLeak == InitAllConfigured /\ [][NextLeak]_vars /\ SweepKeepsRunning

----------------------------------------------------------------------------
(* The Synthesis Orchestrator: claims C1..C3, checked under SpecTTS *)

IsPrefix(s, t) == Len(s) <= Len(t) /\ \A i \in 1..Len(s) : s[i] = t[i]

\* The providers whose attempts a call has started, in order.
Started(log) ==
    LET starts == SelectSeq(log, LAMBDA e : e[2] = "start")
    IN  [i \in 1..Len(starts) |-> starts[i][1]]

\* The order the specification gives: p, then the fallback list without p.
ExpectedOrder(p) == <<p>> \o SelectSeq(fallbackOrder, LAMBDA q : q # p)

Occurrences(f, s) == Cardinality({i \in 1..Len(s) : s[i] = f})

\* C1: in one synthesizeToFile(text, p, options) call the attempts are made
\* one at a time, in the order p, then [openai, elevenlabs, google, browser]
\* without p; an attempt starts only after the previous one has failed, no
\* provider is attempted twice, nothing is attempted after a success, and a
\* failure of any kind (missing credential, unregistered name) moves on to
\* the next provider, so a call that fails has attempted them all.
C1_SequentialFallback ==
    \A c \in Calls :
        LET cl == calls[c]
            log == cl.log
            st == Started(log)
            want == ExpectedOrder(cl.provider)
        IN  cl.pc # "idle" =>
            /\ IsPrefix(st, want)
            /\ \A i, j \in 1..Len(st) : st[i] = st[j] => i = j
            /\ \A i \in 1..Len(log) :
                /\ (i % 2 = 1) => log[i][2] = "start"
                /\ (i % 2 = 0) => /\ log[i][2] \in {"fail", "ok"}
                                  /\ log[i][1] = log[i - 1][1]
                /\ log[i][2] = "ok" => i = Len(log)
            /\ cl.pc = "try" =>
                /\ Len(log) % 2 = 0
                /\ Len(st) < Len(want)
                /\ cl.cur = want[Len(st) + 1]
            /\ cl.pc = "await" => Len(log) % 2 = 1 /\ cl.cur = st[Len(st)]
            /\ cl.pc = "done" <=> (Len(log) > 0 /\ log[Len(log)][2] = "ok")
            /\ cl.pc = "failed" => st = want /\ Len(log) = 2 * Len(want)

\* An unregistered requested name and a provider without credential both
\* failed, and the third attempt succeeded.
C1_Witness ==
    \E c \in Calls :
        /\ calls[c].pc = "done"
        /\ "openai" \notin configured
        /\ calls[c].log = <<<<"azure", "start">>, <<"azure", "fail">>,
                            <<"openai", "start">>, <<"openai", "fail">>,
                            <<"elevenlabs", "start">>, <<"elevenlabs", "ok">>>>

\* C2: when the requested provider and every fallback provider have failed,
\* the call ends with 'All TTS providers failed', no file the call created
\* is on disk, and the call has added nothing to the tempFiles registry.
C2_NoStrayFileAfterAllFail ==
    \A c \in Calls :
        calls[c].pc = "failed" =>
            /\ calls[c].created \cap DOMAIN disk = {}
            /\ \A f \in calls[c].created : Occurrences(f, tempFiles) = 0

\* C3: when the requested provider failed and a later fallback succeeded,
\* the call has created exactly one file, returns its path, and the path is
\* exactly once in the tempFiles registry.
C3_OneFileAfterFallback ==
    \A c \in Calls :
        (calls[c].pc = "done" /\ Len(calls[c].log) > 2) =>
            /\ Cardinality(calls[c].created) = 1
            /\ calls[c].result \in calls[c].created
            /\ Occurrences(calls[c].result, tempFiles) = 1

----------------------------------------------------------------------------
(* The conversation store: claims C6 and C7, checked under SpecStore *)

Range(s) == {s[i] : i \in 1..Len(s)}

\* C6: after deleteConversation(id) on a stored conversation, with any number
\* of messages and after any sequence of operations,
\* getMessagesByConversation(id) is empty and getConversations() does not
\* list id; the call leaves the messages of every other conversation as
\* they were.
C6_DeleteConversationCascades ==
    /\ [](lastOp.op = "deleteConversation" /\ lastOp.ret =>
            /\ getMessagesByConversation(lastOp.arg) = <<>>
            /\ lastOp.arg \notin Range(getConversations))
    /\ [][\A id \in DOMAIN conversations \ DOMAIN conversations' :
            /\ lastOp' = [lastOp' EXCEPT !.op = "deleteConversation", !.arg = id,
                                         !.ret = TRUE]
            /\ \A m \in DOMAIN messages :
                  messages[m].conversationId # id =>
                      m \in DOMAIN messages' /\ messages'[m] = messages[m]
            /\ DOMAIN messages' \subseteq DOMAIN messages
            /\ DOMAIN conversations' = DOMAIN conversations \ {id}]_vars

\* A conversation with messages has just been deleted and another
\* conversation still has a message.
C6_Witness ==
    /\ lastOp.op = "deleteConversation"
    /\ lastOp.ret
    /\ lastOp.n >= 1
    /\ \E m \in DOMAIN messages : messages[m].conversationId \in DOMAIN conversations

\* C7: every conversation's updatedAt is >= its createdAt and >= the
\* timestamp of each of its messages; createMessage makes the parent's
\* updatedAt the new message's timestamp, and deleteMessage and
\* deleteMessages make the updatedAt of each conversation that lost a
\* message the time of the deletion.
C7_UpdatedAtBounds ==
    /\ [](\A c \in DOMAIN conversations :
            /\ conversations[c].updatedAt >= conversations[c].createdAt
            /\ \A m \in DOMAIN messages :
                  messages[m].conversationId = c =>
                      conversations[c].updatedAt >= messages[m].timestamp)
    /\ [][\A c \in DOMAIN conversations' :
            /\ (nextMsg' = nextMsg + 1 /\ messages'[nextMsg'].conversationId = c) =>
                  conversations'[c].updatedAt = messages'[nextMsg'].timestamp
            /\ (/\ lastOp'.op \in {"deleteMessage", "deleteMessages"}
                /\ \E m \in DOMAIN messages \ DOMAIN messages' :
                      messages[m].conversationId = c) =>
                  conversations'[c].updatedAt = now]_vars

\* A message has just been deleted from a conversation that still holds a
\* message created before the deletion.
C7_Witness ==
    /\ lastOp.op \in {"deleteMessage", "deleteMessages"}
    /\ lastOp.ret
    /\ \E c \in DOMAIN conversations, m \in DOMAIN messages :
          /\ messages[m].conversationId = c
          /\ messages[m].timestamp < conversations[c].updatedAt
          /\ conversations[c].updatedAt = now

----------------------------------------------------------------------------
(* The Response Parser: claims C4, C5, checked under SpecParse *)

\* C4: for every reply text of the model (a JSON object, a JSON value that
\* is not an object such as null, fenced JSON, JSON inside prose, text that
\* is not JSON, the empty text) the parsing stage of processWithGPT4 returns
\* a triple of message, action and data, and raises no error.
C4_ParserNeverRaises ==
    gpt.replied =>
        /\ gpt.state = "returned"
        /\ gpt.message # <<>>
        /\ gpt.action # Undefined
        /\ gpt.data # Undefined

\* C5: the action that processWithGPT4 returns is always one of ActionTags:
\* a recognized tag of the reply is kept, an absent tag or a tag outside the
\* set is returned as none.
C5_ActionInClosedSet ==
    gpt.state = "returned" =>
        LET tag == ParseLadder(gpt.content).action
        IN  /\ gpt.action \in ActionTags
            /\ tag \in ActionTags => gpt.action = tag
            /\ tag \notin ActionTags => gpt.action = "none"

\* No step of the ladder parses the reply: not the direct parse, not the
\* parse of the text without its code fences, not the parse of its
\* outermost {...} part.
NoStepParses(content) ==
    /\ JSONparse(content).kind = "SyntaxError"
    /\ JSONparse(StripFences(content)).kind = "SyntaxError"
    /\ \/ MatchBraces(StripFences(content)) = <<>>
       \/ JSONparse(MatchBraces(StripFences(content))).kind = "SyntaxError"

\* The triple returned for a parsed object: its message (the whole reply
\* when it has none) and its tag.
ReturnedFrom(object, content) ==
    /\ gpt.message = IF object.message # <<>> THEN object.message ELSE content
    /\ gpt.action = ReturnedAction(object)

\* C20: when no step of the ladder parses the reply, processWithGPT4 returns
\* message = the first 200 characters of the raw reply (the generic apology
\* when the reply is empty), action = none and data = an empty structure;
\* a later step is tried only when the earlier ones failed: a reply that
\* parses directly is returned as parsed, and a reply that only parses
\* after its fences are stripped and its {...} part is taken is returned
\* as that part says.
C20_FallbackAfterAllStepsFail ==
    gpt.replied =>
        LET content == gpt.content
            direct == JSONparse(content)
            jsonMatch == MatchBraces(StripFences(content))
        IN  /\ NoStepParses(content) =>
                /\ gpt.state = "returned"
                /\ gpt.message = IF content = <<>> THEN EncounteredError
                                 ELSE substring(content, MessageLimit)
                /\ gpt.action = "none"
                /\ gpt.data = EmptyData
            /\ direct.kind = "object" => ReturnedFrom(direct, content)
            /\ /\ direct.kind = "SyntaxError"
               /\ jsonMatch # <<>>
               /\ JSONparse(jsonMatch).kind = "object"
               => ReturnedFrom(JSONparse(jsonMatch), content)

\* A reply of 241 characters that is no JSON: two runs of prose and an
\* opening brace. The message is its first 200 characters.
C20_Witness ==
    /\ gpt.state = "returned"
    /\ gpt.content = <<Prose, Prose, LBrace>>
    /\ gpt.message = <<Prose, CutPiece>>
    /\ gpt.action = "none"
    /\ gpt.data = EmptyData

----------------------------------------------------------------------------
(* The handlers: claims C8, C9, C10, checked under SpecVoice *)

Collaborators == {"weather", "news", "reminder", "email", "document", "music"}

\* C8: when the collaborator of an enrichment branch of /api/process-voice
\* fails, the request is never answered with an error: the handler goes on
\* to the TTS step and answers 200 with response = the message of the model.
C8_EnrichmentFailureStillAnswers ==
    req.route = "voice" /\ req.failed \cap Collaborators # {} =>
        /\ req.pc \in {"tts", "done"}
        /\ req.status \in {0, 200}
        /\ req.pc = "done" =>
              /\ req.status = 200
              /\ gpt.state = "returned"
              /\ req.response = gpt.message
              /\ req.response # <<>>

C8_Witness ==
    /\ req.route = "voice"
    /\ req.pc = "done"
    /\ "weather" \in req.failed
    /\ req.status = 200
    /\ req.response = Text("hi")

\* C9 as stated: a failure of the LLM call and an 'All TTS providers failed'
\* outcome each end the request with status 500, on /api/tts/synthesize and
\* on /api/process-voice with generateTTS.
C9_FailuresAre500 ==
    req.pc = "done" /\ req.failed \cap {"llm", "tts"} # {} => req.status = 500

\* C9, amended: a failure of the LLM call ends /api/process-voice with 500
\* and 'All TTS providers failed' ends /api/tts/synthesize with 500; in
\* /api/process-voice the failed synthesis is caught, and the request is
\* answered 200 with the message of the model and without audioUrl.
C9_FailuresAre500Amended ==
    req.pc = "done" =>
        /\ "llm" \in req.failed => req.status = 500
        /\ "tts" \in req.failed /\ req.route = "tts" => req.status = 500
        /\ "tts" \in req.failed /\ req.route = "voice" =>
              /\ req.status = 200
              /\ req.audioUrl = 0
              /\ req.response = gpt.message

C9_Witness ==
    /\ req.pc = "done"
    /\ req.route = "tts"
    /\ "tts" \in req.failed
    /\ req.status = 500

\* C10: a /api/process-voice request with neither an audio file nor
\* transcriptionText is answered 400 in the step that receives it; no call
\* to the transcription, the LLM, a collaborator or a TTS provider is made
\* and the store is not read.
C10_MissingInputIs400 ==
    /\ [](req.route = "voice" /\ ~req.hasFile /\ ~req.hasText =>
            /\ req.pc = "done"
            /\ req.status = 400
            /\ req.made = {}
            /\ req.history = <<>>
            /\ gpt.state = "idle"
            /\ \A c \in Calls : calls[c].pc = "idle")
    /\ [][req.pc = "idle" /\ req'.route = "voice"
             /\ ~req'.hasFile /\ ~req'.hasText =>
            UNCHANGED <<ttsVars, storeVars>>]_vars

C10_Witness ==
    /\ req.route = "voice"
    /\ ~req.hasFile
    /\ ~req.hasText
    /\ req.pc = "done"
    /\ req.status = 400

----------------------------------------------------------------------------
(* The Email Provider Registry: claims C11, C12, checked under SpecVoice *)

\* C11: in the email branch of /api/process-voice, when the extraction
\* yields a recipient the composed email is handed exactly once to the
\* sendEmail of a registered provider and the result of that provider
\* becomes data; when it yields nothing no provider is invoked and data is
\* left as the model gave it.
C11_EmailBranchSendsOnce ==
    /\ req.route = "voice"
    /\ req.pc = "done"
    /\ req.status = 200
    /\ gpt.action = "email"
    /\ "email" \notin req.failed
    => IF parseEmailFromText(req.utterance) # NoEmail
       THEN /\ Len(mail.invoked) = 1
            /\ mail.invoked[1] \in EmailRegistered
            /\ mail.data = parseEmailFromText(req.utterance)
            /\ req.data = mail.result
       ELSE /\ mail = MailIdle
            /\ req.data = gpt.data

\* C12: EmailService.sendEmail with a provider name that is not registered
\* resolves, without an await and without a throw, to a result with
\* success = false and an error that names the provider; no sendEmail of
\* any provider is invoked, and the caller answers with that result.
C12_UnknownEmailProvider ==
    mail.pc # "idle" /\ mail.provider \notin EmailRegistered =>
        /\ mail.pc = "done"
        /\ ~mail.result.success
        /\ mail.result.error = <<"Email provider '%s' not found", mail.provider>>
        /\ mail.invoked = <<>>
        /\ "email" \notin req.failed
        /\ req.pc = "done" => req.status = 200 /\ req.data = mail.result

C12_Witness ==
    /\ req.route = "email"
    /\ req.pc = "done"
    /\ mail.provider = "smtp"
    /\ req.data = SendFailed("Email provider '%s' not found", "smtp")

----------------------------------------------------------------------------
(* /api/tts/synthesize and its file: claim C13, checked under SpecVoice *)

----------------------------------------------------------------------------
(* Reminder extraction: claim C14, checked under SpecRemindParse *)

Has(text, kind) == \E i \in 1..Len(text) : text[i][1] = kind
\* The number of the first phrase of the kind in the text.
Amount(text, kind) ==
    text[CHOOSE i \in 1..Len(text) :
            /\ text[i][1] = kind
            /\ \A j \in 1..(i - 1) : text[j][1] # kind][2]

\* C14: the due time is the time of the call plus the offset of the first
\* pattern, in the order [in N hours, in N minutes, in N days, tomorrow,
\* next week], that matches anywhere in the text, wherever the phrases
\* stand; without a match it is the time of the call plus one hour.
C14_FirstPatternWins ==
    parsed.called =>
        LET text == parsed.text
            offset ==
                IF Has(text, "hour") THEN Amount(text, "hour") * 3600000
                ELSE IF Has(text, "minute") THEN Amount(text, "minute") * 60000
                ELSE IF Has(text, "day") THEN Amount(text, "day") * 86400000
                ELSE IF Has(text, "tomorrow") THEN 86400000
                ELSE IF Has(text, "next week") THEN 7 * 86400000
                ELSE 3600000
        IN  parsed.data.dueDate = parsed.t + offset

\* The text holds 'tomorrow' before 'in 2 hours': the due time is the time
\* of the call plus two hours.
C14_Witness ==
    /\ parsed.called
    /\ parsed.t = TickMs
    /\ parsed.text = <<Tomorrow, Space, In(2, "hour")>>
    /\ parsed.data.dueDate = TickMs + 2 * 3600000

----------------------------------------------------------------------------
(* The Reminder Service behind the voice handler and its routes: claims   *)
(* C15, C19, checked under SpecReminders                                   *)

\* The request for 'remind me to call Sam in 30 minutes, urgent' has been
\* answered after its reminder branch ran without an error.
CallSamAnswered ==
    /\ req.route = "voice"
    /\ req.pc = "done"
    /\ req.status = 200
    /\ gpt.action = "reminder"
    /\ "reminder" \in req.made
    /\ "reminder" \notin req.failed
    /\ req.utterance = CallSam

\* C15: for the utterance 'remind me to call Sam in 30 minutes, urgent' the
\* reminder branch creates a reminder whose title is 'call Sam', whose
\* priority is high and whose due time is now + 30 minutes.
C15_CallSamReminder ==
    CallSamAnswered =>
        /\ req.data.title = <<Word("call"), Space, Word("Sam")>>
        /\ req.data.priority = "high"
        /\ req.data.dueDate = req.data.createdAt + 30 * 60 * 1000
        /\ reminders[nextReminder] = req.data

\* C19: through the reminder routes and the reminder branch of
\* /api/process-voice a stored reminder changes only by completion:
\* isCompleted goes from false to true and never back, title, dueDate,
\* priority and createdAt never change, no reminder leaves the store, and
\* completeReminder on an unknown id returns null (the route answers 404)
\* and changes nothing.
C19_RemindersChangeOnlyByCompletion ==
    [][/\ DOMAIN reminders \subseteq DOMAIN reminders'
       /\ \A id \in DOMAIN reminders :
            LET a == reminders[id]
                b == reminders'[id]
            IN  /\ b.title = a.title
                /\ b.dueDate = a.dueDate
                /\ b.priority = a.priority
                /\ b.createdAt = a.createdAt
                /\ a.isCompleted => b.isCompleted
                /\ b # a => b.isCompleted
       /\ /\ req.pc = "idle"
          /\ req'.made = {"completeReminder"}
          /\ req'.reminderId \notin DOMAIN reminders
          => /\ req'.status = 404
             /\ req'.data = Undefined
             /\ reminders' = reminders]_vars

\* A reminder was completed some time after it was created, and a later
\* request to complete a reminder that does not exist was answered 404.
C19_Witness ==
    /\ req.made = {"completeReminder"}
    /\ req.status = 404
    /\ req.reminderId \notin DOMAIN reminders
    /\ \E id \in DOMAIN reminders :
          /\ reminders[id].isCompleted
          /\ reminders[id].updatedAt > reminders[id].createdAt

----------------------------------------------------------------------------
(* The temporary files of the TTS service: claims C16..C18, checked under *)
(* SpecSweep                                                               *)

\* C16: for any interleaving of concurrent synthesizeToFile calls with each
\* other and with runs of the sweep, a call that returns a path has
\* appended that path to tempFiles, and the registry loses entries only in
\* the sweep or in cleanup(): every other step leaves it as it was or
\* appends to it.
C16_AppendsAreNotLost ==
    [][/\ \A c \in Calls :
            calls[c].pc # "done" /\ calls'[c].pc = "done" =>
                /\ calls'[c].result \in Tracked(tempFiles')
                /\ calls'[c].result \notin Tracked(tempFiles)
       /\ \/ IsPrefix(tempFiles, tempFiles')
          \/ cleanupTempFiles
          \/ Shutdown]_vars

\* Two calls were in flight together; the file of the first was swept
\* while the second was still waiting for its provider, and the path of
\* the second is in the registry that the sweep left.
C16_Witness ==
    /\ ~exited
    /\ calls["c1"].pc = "done" /\ calls["c1"].result = 1
    /\ calls["c2"].pc = "done" /\ calls["c2"].result = 2
    /\ tempFiles = <<2>>
    /\ DOMAIN disk = {2}

----------------------------------------------------------------------------
(* The voices of the hosted providers: claim C21, checked under SpecVoices *)

\* C21: for each hosted provider, a voice asked of it that is not in its
\* list of available voices (for Google: of the requested language) is
\* never sent to the remote service: the request carries the default voice
\* of the provider instead; a voice of the list is sent as it is.
C21_UnknownVoiceIsNotSent ==
    \A i \in DOMAIN speech.sent :
        LET r == speech.sent[i]
            list == IF r.provider = "google" THEN GoogleVoices(r.language)
                    ELSE IF r.provider = "elevenlabs"
                    THEN {Voice(v) : v \in ElevenLabsVoices}
                    ELSE {Voice(v) : v \in OpenAIVoices}
        IN  r.voice = IF r.asked \in list THEN r.asked ELSE DefaultVoice(r.provider)

----------------------------------------------------------------------------
(* The error payloads of the handlers: claim C22, checked under SpecVoice  *)

\* C22: two runs of the same request that fail internally and differ only
\* in the cause of the failure send the same payload: a request that ends
\* with an error status after one of its calls failed carries the fixed
\* text of its route and nothing of the internal error, whatever the cause
\* was.
C22_ErrorPayloadIsGeneric ==
    req.pc = "done" /\ req.status >= 400 /\ req.failed # {} =>
        /\ req.message[1] # ""
        /\ req.message[2] = ""
        /\ req.message[3] = ""

----------------------------------------------------------------------------
(* The store behind the conversation routes: claims C23, C28 and C30,      *)
(* checked under SpecStore                                                 *)

\* C23: every stored message belongs to a conversation that is present in
\* the store: its conversationId is the id of a stored conversation, after
\* any sequence of createConversation, createMessage, deleteConversation,
\* deleteMessage and deleteMessages that the routes can drive.
C23_MessagesBelongToConversations ==
    \A m \in DOMAIN messages : messages[m].conversationId \in DOMAIN conversations

\* C28: deleteMessages(ids) returns true exactly when ids is not empty and
\* every listed id named a stored message when the loop reached it (a
\* repeated or unknown id gives false); whatever it returns, every listed
\* id that was stored is deleted, no other message is deleted or changed,
\* and only conversations that lost a message get a new updatedAt. The
\* first part speaks of every list in every reachable store, the second
\* of every step that deleteMessages takes.
C28_DeleteMessagesResultAndEffect ==
    /\ [](\A ids \in BatchLists :
            LET listed == {ids[i] : i \in DOMAIN ids}
                lost == {messages[m].conversationId : m \in listed \cap DOMAIN messages}
                st == DeleteLoopFrom(ids)
                after == TouchAll(conversations, st.conversationIds, now)
            IN  /\ deleteMessagesResult(ids) =
                       (/\ Len(ids) > 0
                        /\ \A i \in DOMAIN ids :
                               /\ ids[i] \in DOMAIN messages
                               /\ \A j \in 1..(i - 1) : ids[j] # ids[i])
                /\ DOMAIN st.msgs = DOMAIN messages \ listed
                /\ \A m \in DOMAIN st.msgs : st.msgs[m] = messages[m]
                /\ DOMAIN after = DOMAIN conversations
                /\ \A c \in DOMAIN conversations :
                       after[c] = IF c \in lost
                                  THEN [conversations[c] EXCEPT !.updatedAt = now]
                                  ELSE conversations[c])
    /\ [][lastOp'.op = "deleteMessages" /\ now' = now =>
              LET gone == DOMAIN messages \ DOMAIN messages'
                  lost == {messages[m].conversationId : m \in gone}
              IN  /\ DOMAIN messages' \subseteq DOMAIN messages
                  /\ \A m \in DOMAIN messages' : messages'[m] = messages[m]
                  /\ lastOp'.n = Cardinality(gone)
                  /\ lastOp'.ret => lastOp'.arg = Cardinality(gone)
                  /\ DOMAIN conversations' = DOMAIN conversations
                  /\ \A c \in DOMAIN conversations :
                         conversations'[c] =
                             IF c \in lost
                             THEN [conversations[c] EXCEPT !.updatedAt = now]
                             ELSE conversations[c]]_vars

\* deleteMessages has met a repeated or unknown id after it had deleted a
\* message of a conversation that was last touched before.
C28_Witness ==
    /\ lastOp.op = "deleteMessages"
    /\ lastOp.arg = MaxBatch + 1
    /\ lastOp.ret = FALSE
    /\ lastOp.n = 1
    /\ \E c \in DOMAIN conversations : conversations[c].updatedAt > conversations[c].createdAt
    /\ messages # <<>>

\* C30: deleteConversation(id) and deleteMessage(id) with an id that is not
\* in the store return false and leave the whole store unchanged: the sets
\* of conversations and messages and every conversation's updatedAt are
\* the same as before the call.
C30_UnknownIdChangesNothing ==
    /\ [][\A id \in ConversationIds \ DOMAIN conversations :
              DeleteConversation(id) =>
                  /\ ~lastOp'.ret
                  /\ conversations' = conversations
                  /\ messages' = messages]_vars
    /\ [][\A id \in MessageIds \ DOMAIN messages :
              DeleteMessage(id) =>
                  /\ ~lastOp'.ret
                  /\ conversations' = conversations
                  /\ messages' = messages]_vars

\* deleteConversation has returned false for an unknown id while the store
\* held a conversation with a message and a message that carries the
\* unknown id.
C30_Witness ==
    /\ lastOp.op = "deleteConversation"
    /\ lastOp.arg \notin DOMAIN conversations
    /\ ~lastOp.ret
    /\ \E m \in DOMAIN messages : messages[m].conversationId = lastOp.arg
    /\ \E m \in DOMAIN messages : messages[m].conversationId \in DOMAIN conversations

----------------------------------------------------------------------------
(* The registry and the disk: claims C24 and C25, checked under SpecSweep  *)
(* and SpecLeak                                                            *)

\* C24: in every reachable state every path held in tempFiles names a file
\* that exists on disk, across synthesizeToFile calls, sweeps, cleanup()
\* and the deletions done by the /api/tts/synthesize handler.
C24_TrackedFilesExist ==
    \A i \in DOMAIN tempFiles : tempFiles[i] \in DOMAIN disk

\* The files whose expiry the clock of the model can reach: written early
\* enough to become older than maxAge before the bound on time.
Expires(f) == f \in DOMAIN disk /\ disk[f] < MaxTime

\* C25: every temporary audio file written by tryProvider is eventually
\* removed from disk, provided the periodic sweep keeps running (the
\* process has not exited) and time advances, and no step drops from the
\* registry a path whose file is still on disk after the step.
C25_TempFilesAreRemoved ==
    /\ \A f \in 1..MaxFiles : Expires(f) ~> (f \notin DOMAIN disk \/ exited)
    /\ [][\A f \in Tracked(tempFiles) :
              f \notin Tracked(tempFiles') => f \notin DOMAIN disk']_vars

----------------------------------------------------------------------------
(* The uploaded audio of /api/process-voice: claim C26, checked under      *)
(* SpecVoice                                                               *)

\* C26: when the response of a /api/process-voice request that uploaded an
\* audio file is sent, the deletion of the uploaded file has been started,
\* on every outcome: success, the 400 reply that asks for client-side
\* transcription, and the 500 reply after a transcription or LLM failure.
C26_UploadIsDeletedOnEveryOutcome ==
    req.pc = "done" /\ req.route = "voice" /\ req.hasFile =>
        req.upload = "deleted"

----------------------------------------------------------------------------
(* The route that clears a conversation: claim C27, checked under          *)
(* SpecClear                                                               *)

\* C27: for an existing conversation, DELETE
\* /api/conversations/:conversationId/messages answers with success and the
\* conversation has no messages when the response is sent, also when the
\* conversation had no messages at all and under every interleaving with
\* requests that create or delete messages of the same conversation.
C27_ClearAnswersSuccessAndLeavesNone ==
    [][req.pc = "clearDelete" /\ req'.pc = "done" =>
          /\ req'.status = 200
          /\ \A m \in DOMAIN messages' :
                 messages'[m].conversationId # req.conversationId]_vars

----------------------------------------------------------------------------
(* The default provider: claim C29, checked under SpecRegistry             *)

\* C29: in every reachable state the default provider name is a key of
\* the provider registry: setDefaultProvider with a registered name makes
\* it the default, with an unregistered name it throws and leaves the
\* default as it was (no step changes the registry), and synthesizeToFile
\* without a provider argument starts with a registered provider.
C29_DefaultProviderIsRegistered ==
    /\ [](defaultProvider \in Registered)
    /\ [][\A provider \in ProviderNames : setDefaultProvider(provider) =>
              IF provider \in Registered
              THEN defaultProvider' = provider /\ lastOp'.ret
              ELSE defaultProvider' = defaultProvider /\ ~lastOp'.ret]_vars
    /\ [][\A c \in Calls : SynthesizeDefault(c) =>
              /\ calls'[c].provider \in Registered
              /\ calls'[c].cur = calls'[c].provider]_vars

\* setDefaultProvider has thrown for an unregistered name after the default
\* had been changed, and a call without a provider argument runs with the
\* changed default.
C29_Witness ==
    /\ lastOp.op = "setDefaultProvider"
    /\ ~lastOp.ret
    /\ defaultProvider = "google"
    /\ \E c \in Calls : calls[c].pc = "done" /\ calls[c].provider = "google"

====
